---- MODULE Spec2Model ----
(***************************************************************************)
(* Ticket ledger of the giveaway bot: database.py (snapshot persistence,   *)
(* schema normalisation, CRUD surface) and utils.py (ticket calculation).  *)
(*                                                                         *)
(* Python values are modelled as tagged records so that isinstance, key    *)
(* membership and truthiness are computed the way the interpreter does:    *)
(*   None [t |-> "none"], bool [t |-> "bool", v], int [t |-> "int", v],    *)
(*   str  [t |-> "str", v |-> sequence of characters],                     *)
(*   list [t |-> "list", v |-> sequence], dict [t |-> "dict", v |-> map].  *)
(* Dictionary keys are strings, as they are in every decoded JSON object.  *)
(***************************************************************************)
EXTENDS Integers, Sequences, FiniteSets, TLC

VARIABLES db, file, backup, hist, norm, calc

vars == <<db, file, backup, hist, norm, calc>>

\* ------------------------------------------------------------ bounds
\* Number of ledger operations in one behaviour.
MaxSteps == 2

\* Number of ledger operations in one behaviour whose saves may fail.
MaxIOSteps == 1

\* ------------------------------------------------------------ Python values
None == [t |-> "none"]
B(b) == [t |-> "bool", v |-> b]
I(n) == [t |-> "int", v |-> n]
S(s) == [t |-> "str", v |-> s]
L(s) == [t |-> "list", v |-> s]
D(f) == [t |-> "dict", v |-> f]

EmptyMap == [k \in {} |-> None]
EmptyDict == D(EmptyMap)

IsDict(p) == p.t = "dict"
IsList(p) == p.t = "list"
IsStr(p) == p.t = "str"

\* bool(x): the truth value Python gives a value in `if x` / `x or y`.
Truthy(p) ==
    CASE p.t = "none" -> FALSE
      [] p.t = "bool" -> p.v
      [] p.t = "int" -> p.v # 0
      [] p.t = "str" -> Len(p.v) > 0
      [] p.t = "list" -> Len(p.v) > 0
      [] p.t = "dict" -> DOMAIN p.v # {}

\* k in d, d[k], d.get(k, dflt), d[k] = x, del d[k] on a dict value.
Has(d, k) == k \in DOMAIN d.v
Get(d, k, dflt) == IF k \in DOMAIN d.v THEN d.v[k] ELSE dflt
Put(d, k, x) == D([kk \in (DOMAIN d.v) \cup {k} |-> IF kk = k THEN x ELSE d.v[kk]])
Del(d, k) == D([kk \in (DOMAIN d.v) \ {k} |-> d.v[kk]])
\* d.update(e)
Update(d, e) == D([kk \in (DOMAIN d.v) \cup (DOMAIN e.v) |->
                    IF kk \in DOMAIN e.v THEN e.v[kk] ELSE d.v[kk]])

\* A raised exception, as the value of the call that raised it.
Exc(name) == [t |-> "exc", v |-> name]
IsExc(p) == p.t = "exc"

\* ------------------------------------------------------------ strings
\* x in s for strings: s contains x as a contiguous substring.
IsSubstring(x, s) ==
    \E i \in 0..(Len(s) - Len(x)) : \A j \in 1..Len(x) : s[i + j] = x[j]

\* x in l for a list of values.
InList(x, l) == \E i \in 1..Len(l) : l[i] = x

KeyChars(k) ==
    CASE k = "hashtag" -> <<"h", "a", "s", "h", "t", "a", "g">>
      [] OTHER -> <<k>>

\* `key in data` for the container types on which Python defines it.
Contains(data, k) ==
    CASE data.t = "dict" -> Has(data, k)
      [] data.t = "list" -> InList(S(KeyChars(k)), data.v)
      [] data.t = "str" -> IsSubstring(KeyChars(k), data.v)
      [] OTHER -> FALSE

\* ------------------------------------------------------------ default snapshot
get_default_db ==
    D([participants |-> EmptyDict,
       bonus_roles |-> EmptyDict,
       hashtag |-> D([value |-> None, locked |-> B(FALSE)]),
       tag |-> D([enabled |-> B(FALSE), text |-> None, quantity |-> I(1)]),
       inscricao_channel |-> None,
       button_message_id |-> None,
       blacklist |-> EmptyDict,
       chat_lock |-> D([enabled |-> B(FALSE), channel_id |-> None]),
       moderators |-> L(<<>>),
       inscricoes_closed |-> B(FALSE)])

\* ------------------------------------------------------------ _normalize_db
\* A canonical-shape test that looks for a string where the code looks for
\* an object.
IsCanonicalWrongType(data) ==
    /\ IsDict(data)
    /\ Has(data, "hashtag")
    /\ IsStr(data.v["hashtag"])

\* The test of line 39: hashtag is an object that has a value key.
IsCanonical(data) ==
    /\ IsDict(data)
    /\ Has(data, "hashtag")
    /\ IsDict(data.v["hashtag"])
    /\ Has(data.v["hashtag"], "value")

CopyIf(normalized, data, k, ok) ==
    IF Has(data, k) /\ ok THEN Put(normalized, k, data.v[k]) ELSE normalized

\* Lines 47-62: the fields copied from a legacy mapping, each under its own
\* type test.
CopyFields(data) ==
    LET n1 == CopyIf(get_default_db, data, "participants",
                     Has(data, "participants") /\ IsDict(data.v["participants"]))
        n2 == CopyIf(n1, data, "bonus_roles",
                     Has(data, "bonus_roles") /\ IsDict(data.v["bonus_roles"]))
        n3 == CopyIf(n2, data, "blacklist",
                     Has(data, "blacklist") /\ IsDict(data.v["blacklist"]))
        n4 == CopyIf(n3, data, "inscricao_channel", TRUE)
        n5 == CopyIf(n4, data, "button_message_id", TRUE)
        n6 == CopyIf(n5, data, "chat_lock",
                     Has(data, "chat_lock") /\ IsDict(data.v["chat_lock"]))
        n7 == CopyIf(n6, data, "moderators",
                     Has(data, "moderators") /\ IsList(data.v["moderators"]))
    IN  CopyIf(n7, data, "inscricoes_closed", TRUE)

\* A hashtag migration that copies the stored field as the other fields are
\* copied, without wrapping a bare string.
MigrateHashtagCopy(normalized, data) ==
    IF Has(data, "hashtag") THEN Put(normalized, "hashtag", data.v["hashtag"])
    ELSE normalized

\* Lines 65-70: a bare-string hashtag, or the value of a hashtag object,
\* becomes the value of the default hashtag object.
MigrateHashtag(normalized, data) ==
    IF Has(data, "hashtag") /\ IsStr(data.v["hashtag"])
    THEN Put(normalized, "hashtag",
             Put(normalized.v["hashtag"], "value", data.v["hashtag"]))
    ELSE IF Has(data, "hashtag") /\ IsDict(data.v["hashtag"])
            /\ Has(data.v["hashtag"], "value")
    THEN Put(normalized, "hashtag",
             Put(normalized.v["hashtag"], "value", data.v["hashtag"].v["value"]))
    ELSE normalized

\* Lines 73-74: the stored tag object is merged onto the default one.
MigrateTag(normalized, data) ==
    IF Has(data, "tag") /\ IsDict(data.v["tag"])
    THEN Put(normalized, "tag", Update(normalized.v["tag"], data.v["tag"]))
    ELSE normalized

\* Lines 43-79 for a mapping.
MigrateLegacy(data) == MigrateTag(MigrateHashtag(CopyFields(data), data), data)

\* _normalize_db(data).  An exception given as the argument is the exception
\* the evaluation of that argument raised, which propagates.
\* Non-mapping truthy arguments: `"hashtag" in data` raises TypeError for a
\* number or a boolean; when it is true of a list or a string, data.get
\* raises AttributeError (both outside the try block); otherwise every key
\* test of the try block is either false or raises inside it, and the
\* default snapshot is returned.
_normalize_db(data) ==
    IF IsExc(data) THEN data
    ELSE IF ~Truthy(data) THEN get_default_db
    ELSE IF data.t \in {"int", "bool"} THEN Exc("TypeError")
    ELSE IF data.t \in {"list", "str"}
         THEN (IF Contains(data, "hashtag") THEN Exc("AttributeError")
               ELSE get_default_db)
    ELSE IF IsCanonical(data) THEN data
    ELSE MigrateLegacy(data)

\* ------------------------------------------------------------ JSON
\* JSON documents are null, true, false, number, string, array and object,
\* tagged like the Python values but with JSON's own kinds.
\* json.dump: the JSON document a Python value is written as.
RECURSIVE json_dump(_)
json_dump(p) ==
    CASE p.t = "none" -> [t |-> "null"]
      [] p.t = "bool" -> IF p.v THEN [t |-> "true"] ELSE [t |-> "false"]
      [] p.t = "int" -> [t |-> "number", v |-> p.v]
      [] p.t = "str" -> [t |-> "string", v |-> p.v]
      [] p.t = "list" -> [t |-> "array", v |-> [i \in DOMAIN p.v |-> json_dump(p.v[i])]]
      [] p.t = "dict" -> [t |-> "object", v |-> [k \in DOMAIN p.v |-> json_dump(p.v[k])]]

\* json.loads: the Python value a JSON document decodes to.
RECURSIVE json_loads(_)
json_loads(d) ==
    CASE d.t = "null" -> None
      [] d.t = "true" -> B(TRUE)
      [] d.t = "false" -> B(FALSE)
      [] d.t = "number" -> I(d.v)
      [] d.t = "string" -> S(d.v)
      [] d.t = "array" -> L([i \in DOMAIN d.v |-> json_loads(d.v[i])])
      [] d.t = "object" -> D([k \in DOMAIN d.v |-> json_loads(d.v[k])])

\* ------------------------------------------------------------ the database file
\* What is at a path: nothing, a file that cannot be opened or read, a file
\* whose stripped text is empty, text that is not JSON, or a JSON document.
NoFile == [k |-> "absent"]
Unreadable == [k |-> "unreadable"]
Blank == [k |-> "blank"]
Garbage == [k |-> "garbage"]
JsonFile(doc) == [k |-> "json", doc |-> doc]

\* os.path.exists(DB_FILE)
Exists(f) == f.k # "absent"

\* Lines 17-23 of load_db without its handlers: the value returned or the
\* exception raised inside the try block.
load_db_try(f) ==
    CASE f.k = "unreadable" -> Exc("OSError")
      [] f.k = "blank" -> get_default_db
      [] f.k = "garbage" -> Exc("JSONDecodeError")
      [] f.k = "json" -> _normalize_db(json_loads(f.doc))

\* A load_db whose handlers catch the decoding error only.
load_db_decode_only(f) ==
    IF ~Exists(f) THEN get_default_db
    ELSE LET r == load_db_try(f)
         IN  IF IsExc(r) /\ r.v = "JSONDecodeError" THEN get_default_db ELSE r

\* load_db(): every exception of the try block is answered with the default.
load_db(f) ==
    IF ~Exists(f) THEN get_default_db
    ELSE LET r == load_db_try(f)
         IN  IF IsExc(r) THEN get_default_db ELSE r

\* ------------------------------------------------------------ save_db
\* What the operating system lets one save_db call do: everything, or one of
\* its file operations fails (opening the backup, reading the original for
\* the backup, opening the primary for writing, json.dump part-way).
IOOutcomes == {"ok", "backup_open_fail", "orig_read_fail", "open_fail", "dump_fail"}

\* A backup that is written only when there is none yet.
save_backup_keep_first(f, b, io) ==
    IF ~Exists(f) THEN b
    ELSE IF Exists(b) THEN b
    ELSE IF io = "backup_open_fail" THEN b
    ELSE IF io = "orig_read_fail" \/ f.k = "unreadable" THEN Blank
    ELSE f

\* Lines 85-91: the backup path after the save.  Opening the backup for
\* writing truncates it before the original is read; failures are swallowed.
save_backup(f, b, io) ==
    IF ~Exists(f) THEN b
    ELSE IF io = "backup_open_fail" THEN b
    ELSE IF io = "orig_read_fail" \/ f.k = "unreadable" THEN Blank
    ELSE f

\* A save that writes the text of the value rather than its JSON encoding.
save_primary_repr(f, data, io) ==
    IF io = "open_fail" THEN f ELSE Garbage

\* Lines 93-97: the primary path after the save.  A failure is logged, not
\* raised; a dump that fails part-way leaves text that is not JSON.
save_primary(f, data, io) ==
    IF io = "open_fail" THEN f
    ELSE IF io = "dump_fail" THEN Garbage
    ELSE JsonFile(json_dump(data))

\* ------------------------------------------------------------ keys
\* str(n) and int(k) on the ids of the model.
Digits == <<"1", "2", "3", "4", "5", "6", "7", "8", "9">>
str(n) == Digits[n]
IsNumeric(k) == \E n \in DOMAIN Digits : Digits[n] = k
int(k) == CHOOSE n \in DOMAIN Digits : Digits[n] = k

\* datetime.utcnow().isoformat() at the n-th operation of the run.
Timestamp(n) == <<"t", Digits[n + 1]>>

\* ------------------------------------------------------------ participants
\* The result of an operation: the snapshot after it, the value returned (or
\* the exception raised) and whether _save() was called.
Result(d, ret, save) == [db |-> d, ret |-> ret, save |-> save]

\* Lines 193-202.
add_participant(d, user_id, first_name, last_name, tickets, message_id, now) ==
    IF ~Has(d, "participants") THEN Result(d, Exc("KeyError"), FALSE)
    ELSE Result(Put(d, "participants",
                    Put(d.v["participants"], str(user_id),
                        D([first_name |-> first_name, last_name |-> last_name,
                           tickets |-> tickets, message_id |-> message_id,
                           timestamp |-> S(now)]))),
                None, TRUE)

\* _db.get("participants", {})
Participants(d) == Get(d, "participants", EmptyDict)

\* Lines 215-217.
is_registered(d, user_id) == Has(Participants(d), str(user_id))

\* An update that creates the record when the id is not registered.
update_tickets_upsert(d, user_id, tickets) ==
    IF is_registered(d, user_id)
    THEN Result(Put(d, "participants",
                    Put(d.v["participants"], str(user_id),
                        Put(d.v["participants"].v[str(user_id)], "tickets", tickets))),
                None, TRUE)
    ELSE Result(Put(d, "participants",
                    Put(Participants(d), str(user_id), D([tickets |-> tickets]))),
                None, TRUE)

\* Lines 228-233.
update_tickets(d, user_id, tickets) ==
    IF is_registered(d, user_id)
    THEN Result(Put(d, "participants",
                    Put(d.v["participants"], str(user_id),
                        Put(d.v["participants"].v[str(user_id)], "tickets", tickets))),
                None, TRUE)
    ELSE Result(d, None, FALSE)

\* A removal that reports success whether or not the id was registered.
remove_participant_always(d, user_id) ==
    IF is_registered(d, user_id)
    THEN Result(Put(d, "participants", Del(d.v["participants"], str(user_id))),
                B(TRUE), TRUE)
    ELSE Result(d, B(TRUE), TRUE)

\* Lines 235-242.
remove_participant(d, user_id) ==
    IF is_registered(d, user_id)
    THEN Result(Put(d, "participants", Del(d.v["participants"], str(user_id))),
                B(TRUE), TRUE)
    ELSE Result(d, B(FALSE), FALSE)

\* A manual-tag update that stores the delta instead of adding it.
add_manual_tag_assign(d, user_id, quantity) ==
    IF ~is_registered(d, user_id) THEN Result(d, None, FALSE)
    ELSE LET p == d.v["participants"].v[str(user_id)]
             t == p.v["tickets"]
         IN  IF ~IsDict(t) THEN Result(d, Exc("TypeError"), FALSE)
             ELSE Result(Put(d, "participants",
                             Put(d.v["participants"], str(user_id),
                                 Put(p, "tickets", Put(t, "manual_tag", I(quantity))))),
                         None, TRUE)

\* Lines 244-251.  `"manual_tag" not in tickets` raises TypeError when the
\* stored tickets value is a number rather than a mapping.
add_manual_tag(d, user_id, quantity) ==
    IF ~is_registered(d, user_id) THEN Result(d, None, FALSE)
    ELSE LET p == d.v["participants"].v[str(user_id)]
             t == p.v["tickets"]
         IN  IF ~IsDict(t) THEN Result(d, Exc("TypeError"), FALSE)
             ELSE LET t0 == IF Has(t, "manual_tag") THEN t ELSE Put(t, "manual_tag", I(0))
                      t1 == Put(t0, "manual_tag", I(t0.v["manual_tag"].v + quantity))
                  IN  Result(Put(d, "participants",
                                 Put(d.v["participants"], str(user_id),
                                     Put(p, "tickets", t1))),
                             None, TRUE)

\* Lines 253-256.
clear_participants(d) == Result(Put(d, "participants", EmptyDict), None, TRUE)

\* A full reset that only empties the participants.
clear_all_participants_only(d) == Result(Put(d, "participants", EmptyDict), None, TRUE)

\* Lines 258-261.
clear_all(d) == Result(get_default_db, None, TRUE)

\* ------------------------------------------------------------ configuration
\* Lines 124-127.
set_hashtag(d, hashtag) ==
    Result(Put(d, "hashtag", Put(d.v["hashtag"], "value", hashtag)), None, TRUE)

\* Lines 137-140.
lock_hashtag(d) ==
    Result(Put(d, "hashtag", Put(d.v["hashtag"], "locked", B(TRUE))), None, TRUE)

\* Lines 142-145.
unlock_hashtag(d) ==
    Result(Put(d, "hashtag", Put(d.v["hashtag"], "locked", B(FALSE))), None, TRUE)

\* Lines 149-156.
set_tag(d, enabled, text, quantity) ==
    IF ~Has(d, "tag") THEN Result(d, Exc("KeyError"), FALSE)
    ELSE LET t1 == Put(d.v["tag"], "enabled", enabled)
             t2 == IF Truthy(text) THEN Put(t1, "text", text) ELSE t1
             t3 == IF quantity.v > 0 THEN Put(t2, "quantity", quantity) ELSE t2
         IN  Result(Put(d, "tag", t3), None, TRUE)

\* Lines 158-160.
get_tag(d) == Get(d, "tag", D([enabled |-> B(FALSE), text |-> None, quantity |-> I(1)]))

\* Lines 164-170.
add_bonus_role(d, role_id, quantity, abbreviation) ==
    IF ~Has(d, "bonus_roles") THEN Result(d, Exc("KeyError"), FALSE)
    ELSE Result(Put(d, "bonus_roles",
                    Put(d.v["bonus_roles"], str(role_id),
                        D([quantity |-> quantity, abbreviation |-> abbreviation]))),
                None, TRUE)

\* Lines 172-180: the stored roles keyed by integer; a key that is not a
\* number is skipped.
get_bonus_roles(d) ==
    LET stored == Get(d, "bonus_roles", EmptyDict).v
    IN  [n \in {int(k) : k \in {x \in DOMAIN stored : IsNumeric(x)}} |-> stored[str(n)]]

\* A removal that also deletes the role's entry from every stored breakdown.
remove_bonus_role_cascade(d, role_id) ==
    IF Has(Get(d, "bonus_roles", EmptyDict), str(role_id))
    THEN LET ps == Participants(d).v
             Strip(p) ==
                 IF Has(p, "tickets") /\ IsDict(p.v["tickets"])
                    /\ Has(p.v["tickets"], "roles") /\ IsDict(p.v["tickets"].v["roles"])
                    /\ Has(p.v["tickets"].v["roles"], str(role_id))
                 THEN Put(p, "tickets",
                          Put(p.v["tickets"], "roles",
                              Del(p.v["tickets"].v["roles"], str(role_id))))
                 ELSE p
         IN  Result(Put(Put(d, "bonus_roles", Del(d.v["bonus_roles"], str(role_id))),
                        "participants", D([k \in DOMAIN ps |-> Strip(ps[k])])),
                    B(TRUE), TRUE)
    ELSE Result(d, B(FALSE), FALSE)

\* Lines 182-189.
remove_bonus_role(d, role_id) ==
    IF Has(Get(d, "bonus_roles", EmptyDict), str(role_id))
    THEN Result(Put(d, "bonus_roles", Del(d.v["bonus_roles"], str(role_id))), B(TRUE), TRUE)
    ELSE Result(d, B(FALSE), FALSE)

\* Lines 265-272.
add_to_blacklist(d, user_id, reason, banned_by, now) ==
    IF ~Has(d, "blacklist") THEN Result(d, Exc("KeyError"), FALSE)
    ELSE Result(Put(d, "blacklist",
                    Put(d.v["blacklist"], str(user_id),
                        D([reason |-> reason, banned_by |-> banned_by,
                           timestamp |-> S(now)]))),
                None, TRUE)

\* Lines 274-281.
remove_from_blacklist(d, user_id) ==
    IF Has(Get(d, "blacklist", EmptyDict), str(user_id))
    THEN Result(Put(d, "blacklist", Del(d.v["blacklist"], str(user_id))), B(TRUE), TRUE)
    ELSE Result(d, B(FALSE), FALSE)

\* Lines 293-296.
set_inscricao_channel(d, channel_id) ==
    Result(Put(d, "inscricao_channel", channel_id), None, TRUE)

\* Lines 304-307.
set_button_message_id(d, message_id) ==
    Result(Put(d, "button_message_id", message_id), None, TRUE)

\* Lines 309-319.
add_button_message_id(d, message_id) ==
    LET cur == Get(d, "button_message_id", None)
        lst == IF IsList(cur) THEN cur.v
               ELSE IF Truthy(cur) THEN <<cur>> ELSE <<>>
        new == IF InList(message_id, lst) THEN lst ELSE Append(lst, message_id)
    IN  Result(Put(d, "button_message_id", L(new)), None, TRUE)

\* A setter that replaces the chat_lock object by its two arguments.
set_chat_lock_replace(d, enabled, channel_id) ==
    IF ~Has(d, "chat_lock") THEN Result(d, Exc("KeyError"), FALSE)
    ELSE Result(Put(d, "chat_lock", D([enabled |-> enabled, channel_id |-> channel_id])),
                None, TRUE)

\* Lines 327-332.
set_chat_lock(d, enabled, channel_id) ==
    IF ~Has(d, "chat_lock") THEN Result(d, Exc("KeyError"), FALSE)
    ELSE LET c1 == Put(d.v["chat_lock"], "enabled", enabled)
             c2 == IF Truthy(channel_id) THEN Put(c1, "channel_id", channel_id) ELSE c1
         IN  Result(Put(d, "chat_lock", c2), None, TRUE)

\* Lines 340-344.
add_moderator(d, user_id) ==
    IF InList(I(user_id), Get(d, "moderators", L(<<>>)).v) THEN Result(d, None, TRUE)
    ELSE IF ~Has(d, "moderators") THEN Result(d, Exc("KeyError"), FALSE)
    ELSE Result(Put(d, "moderators", L(Append(d.v["moderators"].v, I(user_id)))),
                None, TRUE)

\* list.remove(x): the list without the first element equal to x.
ListRemove(l, x) ==
    LET i == CHOOSE n \in 1..Len(l) : l[n] = x /\ \A m \in 1..(n - 1) : l[m] # x
    IN  SubSeq(l, 1, i - 1) \o SubSeq(l, i + 1, Len(l))

\* Lines 346-352.
remove_moderator(d, user_id) ==
    IF InList(I(user_id), Get(d, "moderators", L(<<>>)).v)
    THEN Result(Put(d, "moderators", L(ListRemove(d.v["moderators"].v, I(user_id)))),
                B(TRUE), TRUE)
    ELSE Result(d, B(FALSE), FALSE)

\* Lines 364-367.
set_inscricoes_closed(d, closed) ==
    Result(Put(d, "inscricoes_closed", closed), None, TRUE)

\* ------------------------------------------------------------ utils.py: text
Whitespace == {" "}

RECURSIVE lstrip(_)
lstrip(s) == IF s # <<>> /\ s[1] \in Whitespace THEN lstrip(Tail(s)) ELSE s

RECURSIVE rstrip(_)
rstrip(s) ==
    IF s # <<>> /\ s[Len(s)] \in Whitespace THEN rstrip(SubSeq(s, 1, Len(s) - 1)) ELSE s

\* str.strip()
strip(s) == rstrip(lstrip(s))

UpperCase == <<"A", "B", "I", "L", "P", "R", "S", "V">>
LowerCase == <<"a", "b", "i", "l", "p", "r", "s", "v">>

lower_char(c) ==
    IF \E i \in DOMAIN UpperCase : UpperCase[i] = c
    THEN LowerCase[CHOOSE i \in DOMAIN UpperCase : UpperCase[i] = c]
    ELSE c

\* str.lower()
lower(s) == [i \in DOMAIN s |-> lower_char(s[i])]

\* is_name_taken comparing the names as written, without lower-casing.
is_name_taken_case_sensitive(d, first_name, last_name) ==
    LET ps == Participants(d).v
    IN  IF \E k \in DOMAIN ps : ~Has(ps[k], "first_name") \/ ~Has(ps[k], "last_name")
        THEN Exc("KeyError")
        ELSE B(\E k \in DOMAIN ps :
                 ps[k].v["first_name"].v \o <<" ">> \o ps[k].v["last_name"].v
                   = first_name \o <<" ">> \o last_name)

\* Lines 219-226: the lower-cased names joined by one space are compared.
\* data['first_name'] raises KeyError on a record without a name; every
\* record the program writes has both.
is_name_taken(d, first_name, last_name) ==
    LET ps == Participants(d).v
        search_name == lower(first_name) \o <<" ">> \o lower(last_name)
    IN  IF \E k \in DOMAIN ps : ~Has(ps[k], "first_name") \/ ~Has(ps[k], "last_name")
        THEN Exc("KeyError")
        ELSE B(\E k \in DOMAIN ps :
                 lower(ps[k].v["first_name"].v) \o <<" ">> \o lower(ps[k].v["last_name"].v)
                   = search_name)

\* ------------------------------------------------------------ utils.py: tickets
\* x or dflt
Or(x, dflt) == IF Truthy(x) THEN x ELSE dflt

\* int(x) of a number or a boolean.
to_int(p) == IF p.t = "bool" THEN (IF p.v THEN 1 ELSE 0) ELSE p.v

\* Line 65 / line 102: int(role_info.get("quantity", 1) or 1)
role_quantity(role_info) == to_int(Or(Get(role_info, "quantity", I(1)), I(1)))

\* Line 66.
role_abbreviation(role_info) ==
    strip(Or(Or(Get(role_info, "abbreviation", None),
                Get(role_info, "abreviation", None)), S(<<>>)).v)

\* A role entry that ignores the configured quantity and records 1.
role_entry_quantity_one(role_info) ==
    D([quantity |-> I(1), abbreviation |-> S(role_abbreviation(role_info))])

\* Lines 65-71: the entry recorded for a held role.
role_entry(role_info) ==
    D([quantity |-> I(role_quantity(role_info)),
       abbreviation |-> S(role_abbreviation(role_info))])

\* A member: absent (None), or its role ids and four name fields.
NoMember == [present |-> FALSE]
Member(roles, display_name, nick, global_name, name) ==
    [present |-> TRUE, roles |-> roles, display_name |-> display_name, nick |-> nick,
     global_name |-> global_name, name |-> name]

\* Lines 59-73: an entry for every configured role the member holds.
calculate_roles(member, bonus_roles) ==
    LET held == {r \in DOMAIN bonus_roles : r \in member.roles}
    IN  D([k \in {str(r) : r \in held} |-> role_entry(bonus_roles[int(k)])])

\* calculate_tag comparing the name fields without lower-casing them.
calculate_tag_case_sensitive(member, tag_enabled, tag_text, tag_quantity) ==
    IF Truthy(tag_enabled) /\ Truthy(tag_text)
    THEN LET tag_search == lower(strip(tag_text.v))
             checks == <<Or(member.display_name, S(<<>>)), Or(member.nick, S(<<>>)),
                         Or(member.global_name, S(<<>>)), Or(member.name, S(<<>>))>>
         IN  IF \E i \in 1..4 : /\ Truthy(checks[i])
                                /\ IsSubstring(tag_search, strip(checks[i].v))
             THEN tag_quantity ELSE I(0)
    ELSE I(0)

\* Lines 76-91: the tag quantity when the tag text is found in a name field.
calculate_tag(member, tag_enabled, tag_text, tag_quantity) ==
    IF Truthy(tag_enabled) /\ Truthy(tag_text)
    THEN LET tag_search == lower(strip(tag_text.v))
             checks == <<Or(member.display_name, S(<<>>)), Or(member.nick, S(<<>>)),
                         Or(member.global_name, S(<<>>)), Or(member.name, S(<<>>))>>
         IN  IF \E i \in 1..4 : /\ Truthy(checks[i])
                                /\ IsSubstring(tag_search, lower(strip(checks[i].v)))
             THEN tag_quantity ELSE I(0)
    ELSE I(0)

\* Lines 27-93.
calculate_tickets(member, bonus_roles, tag_enabled, tag_text, tag_quantity) ==
    IF ~member.present
    THEN D([roles |-> EmptyDict, tag |-> I(0), tag_text |-> Or(tag_text, S(<<>>)),
            manual_tag |-> I(0)])
    ELSE D([roles |-> calculate_roles(member, bonus_roles),
            tag |-> calculate_tag(member, tag_enabled, tag_text, tag_quantity),
            tag_text |-> Or(tag_text, S(<<>>)),
            manual_tag |-> I(0)])

RECURSIVE SumQuantities(_, _)
SumQuantities(roles, keys) ==
    IF keys = {} THEN 0
    ELSE LET k == CHOOSE x \in keys : TRUE
         IN  role_quantity(roles[k]) + SumQuantities(roles, keys \ {k})

\* Lines 95-111.  tickets.get raises AttributeError on a number.
get_total_tickets(tickets) ==
    IF ~IsDict(tickets) THEN Exc("AttributeError")
    ELSE LET roles == Get(tickets, "roles", None)
             from_roles == IF Truthy(roles) THEN SumQuantities(roles.v, DOMAIN roles.v) ELSE 0
         IN  I(from_roles + to_int(Or(Get(tickets, "tag", I(0)), I(0)))
                + to_int(Or(Get(tickets, "manual_tag", I(0)), I(0))))

\* ------------------------------------------------------------ statistics
\* Lines 385, 398: data.get("tickets", {}) and tickets.get("roles", {}).
StatTickets(data) == Get(data, "tickets", EmptyDict)
StatRoles(data) == Get(StatTickets(data), "roles", EmptyDict).v

\* Line 392: tag_qty = tickets.get("tag", 0) + tickets.get("manual_tag", 0).
StatTagQty(data) ==
    Get(StatTickets(data), "tag", I(0)).v + Get(StatTickets(data), "manual_tag", I(0)).v

\* Line 406: role_qty = role_info.get("quantity", 1).
RECURSIVE StatRoleSum(_, _)
StatRoleSum(roles, keys) ==
    IF keys = {} THEN 0
    ELSE LET k == CHOOSE x \in keys : TRUE
         IN  Get(roles[k], "quantity", I(1)).v + StatRoleSum(roles, keys \ {k})

\* Lines 384-409, one participant: base (1 unless stored), tag and manual
\* tag, and every role quantity are added to total_tickets.
StatTicketsOf(data) ==
    Get(StatTickets(data), "base", I(1)).v + StatTagQty(data)
      + StatRoleSum(StatRoles(data), DOMAIN StatRoles(data))

RECURSIVE StatTotal(_, _)
StatTotal(ps, keys) ==
    IF keys = {} THEN 0
    ELSE LET k == CHOOSE x \in keys : TRUE
         IN  StatTicketsOf(ps[k]) + StatTotal(ps, keys \ {k})

\* The total_tickets of role_id: the sum of its quantity over its holders.
RECURSIVE StatRoleTotal(_, _, _)
StatRoleTotal(ps, holders, role_id) ==
    IF holders = {} THEN 0
    ELSE LET k == CHOOSE x \in holders : TRUE
         IN  Get(StatRoles(ps[k])[role_id], "quantity", I(1)).v
               + StatRoleTotal(ps, holders \ {k}, role_id)

\* Lines 400-405: the abbreviation is taken from the first holder the
\* iteration meets.  The mappings of the model carry no order: when the
\* holders disagree the value is the set of the candidates.
StatAbbreviation(ps, holders, role_id) ==
    LET cands == {Get(StatRoles(ps[k])[role_id], "abbreviation", S(<<>>)) : k \in holders}
    IN  IF Cardinality(cands) = 1 THEN CHOOSE a \in cands : TRUE
        ELSE [t |-> "first_of", v |-> cands]

\* Lines 375-417.  tickets.get raises AttributeError when a participant's
\* tickets value is a number.
get_statistics(d) ==
    LET ps == Participants(d).v
        role_ids == UNION {DOMAIN StatRoles(ps[k]) : k \in DOMAIN ps}
        Holders(r) == {k \in DOMAIN ps : r \in DOMAIN StatRoles(ps[k])}
    IN  IF \E k \in DOMAIN ps : ~IsDict(StatTickets(ps[k]))
        THEN Exc("AttributeError")
        ELSE D([total_participants |-> I(Cardinality(DOMAIN ps)),
                total_tickets |-> I(StatTotal(ps, DOMAIN ps)),
                participants_with_tag |->
                    I(Cardinality({k \in DOMAIN ps : StatTagQty(ps[k]) > 0})),
                tickets_by_role |->
                    D([r \in role_ids |->
                         D([count |-> I(Cardinality(Holders(r))),
                            total_tickets |-> I(StatRoleTotal(ps, Holders(r), r)),
                            abbreviation |-> StatAbbreviation(ps, Holders(r), r)])]),
                blacklist_count |-> I(Cardinality(DOMAIN Get(d, "blacklist", EmptyDict).v))])

\* ------------------------------------------------------------ sample data
Absent == [t |-> "absent"]

\* The mapping that holds the fields of r that are present.
MkDict(r) == D([k \in {x \in DOMAIN r : r[x] # Absent} |-> r[k]])

Ana == <<"A", "n", "a">>
Silva == <<"S", "i", "l", "v", "a">>
Vip == <<"v", "i", "p">>

RoleEntry(q, a) == D([quantity |-> I(q), abbreviation |-> S(a)])

Breakdown(roles, tag, manual) ==
    D([roles |-> roles, tag |-> I(tag), tag_text |-> S(Vip), manual_tag |-> I(manual)])

Participant(first, last, tickets, ts) ==
    D([first_name |-> S(first), last_name |-> S(last), tickets |-> tickets,
       message_id |-> I(7), timestamp |-> S(ts)])

OneParticipant ==
    D("1" :> Participant(Ana, Silva,
                         Breakdown(D("1" :> RoleEntry(2, <<"S", "B">>)), 0, 2),
                         <<"t", "0">>))

\* ------------------------------------------------------------ raw inputs of the normaliser
HashtagVariants ==
    {Absent, S(<<"x">>), S(<<>>), None, I(5), EmptyDict, D([locked |-> B(TRUE)]),
     D([value |-> S(<<"x">>), locked |-> B(TRUE)]), D([value |-> None])}
ParticipantsVariants == {Absent, EmptyDict, OneParticipant, L(<<>>), None}
ModeratorsVariants == {Absent, L(<<I(1)>>), EmptyDict, I(7)}
TagVariants ==
    {Absent, D([enabled |-> B(TRUE)]),
     D([enabled |-> B(TRUE), text |-> S(Vip), quantity |-> I(5)]), S(Vip)}
ChatLockVariants ==
    {Absent, EmptyDict, D([enabled |-> B(TRUE), channel_id |-> I(9)]), None}
\* bonus_roles, blacklist, inscricao_channel, button_message_id, inscricoes_closed
RestVariants ==
    {[bonus_roles |-> Absent, blacklist |-> Absent, inscricao_channel |-> Absent,
      button_message_id |-> Absent, inscricoes_closed |-> Absent],
     [bonus_roles |-> D("1" :> RoleEntry(2, <<"S", "B">>)), blacklist |-> EmptyDict,
      inscricao_channel |-> I(9), button_message_id |-> L(<<I(7)>>),
      inscricoes_closed |-> B(TRUE)],
     [bonus_roles |-> L(<<>>), blacklist |-> S(<<"x">>), inscricao_channel |-> S(<<"x">>),
      button_message_id |-> I(7), inscricoes_closed |-> None]}

RawMappings ==
    {MkDict([hashtag |-> h, participants |-> p, moderators |-> m, tag |-> tg,
             chat_lock |-> cl, bonus_roles |-> r.bonus_roles, blacklist |-> r.blacklist,
             inscricao_channel |-> r.inscricao_channel,
             button_message_id |-> r.button_message_id,
             inscricoes_closed |-> r.inscricoes_closed]) :
        h \in HashtagVariants, p \in ParticipantsVariants, m \in ModeratorsVariants,
        tg \in TagVariants, cl \in ChatLockVariants, r \in RestVariants}

\* Decoded JSON that is not a mapping.
RawScalars ==
    {None, I(0), I(5), B(TRUE), B(FALSE), S(<<>>), S(<<"x">>),
     S(<<"h", "a", "s", "h", "t", "a", "g">>), L(<<>>), L(<<I(1)>>),
     L(<<S(<<"h", "a", "s", "h", "t", "a", "g">>)>>)}

RawInputs == RawMappings \cup RawScalars

\* ------------------------------------------------------------ SpecNorm
\* _normalize_db applied to a raw input, and applied again to its result.
NormIdle == [pc |-> "idle", data |-> None, once |-> None, twice |-> None]
CalcIdle == [pc |-> "idle"]

InitNorm ==
    /\ db = get_default_db
    /\ file = NoFile
    /\ backup = NoFile
    /\ hist = <<>>
    /\ calc = CalcIdle
    /\ \E d \in RawInputs : norm = [pc |-> "start", data |-> d, once |-> None, twice |-> None]

NormalizeOnce ==
    /\ norm.pc = "start"
    /\ norm' = [norm EXCEPT !.pc = "once", !.once = _normalize_db(norm.data)]
    /\ UNCHANGED <<db, file, backup, hist, calc>>

NormalizeTwice ==
    /\ norm.pc = "once"
    /\ norm' = [norm EXCEPT !.pc = "twice", !.twice = _normalize_db(norm.once)]
    /\ UNCHANGED <<db, file, backup, hist, calc>>

NextNorm == NormalizeOnce \/ NormalizeTwice

SpecNorm == InitNorm /\ [][NextNorm]_vars

\* ------------------------------------------------------------ claims on _normalize_db
\* The snapshots C6 calls canonical: hashtag is an object with a value key.
HashtagObjectWithValue(d) ==
    /\ d.t = "dict"
    /\ "hashtag" \in DOMAIN d.v
    /\ d.v["hashtag"].t = "dict"
    /\ "value" \in DOMAIN d.v["hashtag"].v

\* C6: _normalize_db returns a snapshot whose hashtag is an object with a
\* value key unchanged, and normalising the result of a normalisation gives
\* that result again (an input on which the call raises raises again).
C6_NormalizeIdempotent ==
    /\ (norm.pc \in {"once", "twice"} /\ HashtagObjectWithValue(norm.data))
       => norm.once = norm.data
    /\ norm.pc = "twice" => norm.twice = norm.once

\* C6 witness: a legacy mapping that the first pass rewrote has been
\* normalised twice.
C6_Witness ==
    /\ norm.pc = "twice"
    /\ norm.data.t = "dict"
    /\ ~HashtagObjectWithValue(norm.data)
    /\ Has(norm.data, "participants")
    /\ norm.once # norm.data
    /\ HashtagObjectWithValue(norm.once)
    /\ norm.twice = norm.once

\* The keys and shapes of the canonical snapshot.
HasKeys(d, ks) == IsDict(d) /\ ks \subseteq DOMAIN d.v

WellFormed(d) ==
    /\ HasKeys(d, DOMAIN get_default_db.v)
    /\ IsDict(d.v["participants"])
    /\ IsDict(d.v["bonus_roles"])
    /\ IsDict(d.v["blacklist"])
    /\ IsList(d.v["moderators"])
    /\ HasKeys(d.v["hashtag"], {"value", "locked"})
    /\ HasKeys(d.v["tag"], {"enabled", "text", "quantity"})
    /\ HasKeys(d.v["chat_lock"], {"enabled", "channel_id"})

\* C7: for every raw input _normalize_db returns, without raising, a
\* snapshot that has every required key with the required shape.
C7_NormalizeTotal ==
    norm.pc \in {"once", "twice"} => (~IsExc(norm.once) /\ WellFormed(norm.once))

\* C8: a legacy mapping whose hashtag is a bare string s is normalised to a
\* snapshot whose hashtag is exactly {value: s, locked: false}.
C8_BareStringHashtag ==
    (/\ norm.pc \in {"once", "twice"}
     /\ IsDict(norm.data)
     /\ Has(norm.data, "hashtag")
     /\ IsStr(norm.data.v["hashtag"]))
    => (/\ IsDict(norm.once)
        /\ Has(norm.once, "hashtag")
        /\ norm.once.v["hashtag"] =
               D([value |-> norm.data.v["hashtag"], locked |-> B(FALSE)]))

\* C8 witness: a mapping with a non-empty bare-string hashtag and other
\* fields has been normalised.
C8_Witness ==
    /\ norm.pc = "once"
    /\ IsDict(norm.data)
    /\ Has(norm.data, "hashtag")
    /\ norm.data.v["hashtag"] = S(<<"x">>)
    /\ Has(norm.data, "participants")
    /\ norm.once.v["hashtag"] = D([value |-> S(<<"x">>), locked |-> B(FALSE)])

\* ------------------------------------------------------------ the ledger
SB == <<"S", "B">>
Bia == <<"B", "i", "a">>

MemberAna == Member({1}, S(Ana), None, None, S(<<"a">>))
MemberVip == Member({1, 2}, S(<<"B", "i", "a">>), S(<<"V", "i", "p", " ", "B">>), None, S(<<"b">>))

\* Snapshots found on disk when the process starts.
FullSnapshot ==
    D([participants |->
           D([k \in {"1", "2"} |->
                IF k = "1"
                THEN Participant(Ana, Silva, Breakdown(D("1" :> RoleEntry(2, SB)), 5, 2),
                                 <<"t", "0">>)
                ELSE Participant(Bia, Silva, I(3), <<"t", "0">>)]),
       bonus_roles |-> D([k \in {"1", "2"} |->
                            IF k = "1" THEN RoleEntry(2, SB) ELSE RoleEntry(1, <<" ", "V">>)]),
       hashtag |-> D([value |-> S(<<"x">>), locked |-> B(TRUE)]),
       tag |-> D([enabled |-> B(TRUE), text |-> S(Vip), quantity |-> I(5)]),
       inscricao_channel |-> I(9),
       button_message_id |-> I(7),
       blacklist |-> D("2" :> D([reason |-> S(<<"r">>), banned_by |-> I(1),
                                 timestamp |-> S(<<"t", "0">>)])),
       chat_lock |-> D([enabled |-> B(TRUE), channel_id |-> I(9)]),
       moderators |-> L(<<I(1)>>),
       inscricoes_closed |-> B(TRUE)])

\* A canonical snapshot whose breakdown has neither roles nor manual_tag.
LegacyTicketsSnapshot ==
    Put(Put(get_default_db, "participants",
            D("1" :> Participant(Ana, Silva, D([tag |-> I(1)]), <<"t", "0">>))),
        "button_message_id", L(<<I(7)>>))

\* A snapshot of a revision that had the hashtag object but not every field.
PartialSnapshot ==
    D([hashtag |-> D([value |-> None, locked |-> B(FALSE)]),
       participants |-> OneParticipant])

\* A snapshot of the revision that stored hashtag as a bare string.
LegacySnapshot ==
    D([hashtag |-> S(<<"x">>), participants |-> OneParticipant,
       tag |-> D([enabled |-> B(TRUE)]), chat_lock |-> EmptyDict,
       moderators |-> L(<<I(1)>>), button_message_id |-> I(7)])

InitFiles ==
    {NoFile, Blank, Garbage, Unreadable}
    \cup {JsonFile(json_dump(x)) : x \in {FullSnapshot, LegacyTicketsSnapshot, PartialSnapshot}}

UserIds == {1, 2}

\* Line 115: the snapshot is loaded when the module is imported.
Init ==
    /\ file \in InitFiles
    /\ backup = NoFile
    /\ db = load_db(file)
    /\ hist = <<>>
    /\ norm = NormIdle
    /\ calc = CalcIdle

\* A call that saves the snapshot as it was before the operation changed it.
DoSaveBeforeChange(op, uid, arg, r, io) ==
    /\ Len(hist) < MaxSteps
    /\ db' = r.db
    /\ file' = IF r.save THEN save_primary(file, db, io) ELSE file
    /\ backup' = IF r.save THEN save_backup(file, backup, io) ELSE backup
    /\ hist' = Append(hist, [op |-> op, uid |-> uid, arg |-> arg, ret |-> r.ret,
                             pre |-> db, saved |-> r.save, io |-> io,
                             prefile |-> file])
    /\ UNCHANGED <<norm, calc>>

\* One call of an operation: its effect on the snapshot, then _save() when
\* the operation reaches it (lines 117-120), recorded with the snapshot and
\* the file it started from.
Do(op, uid, arg, r, io) ==
    /\ Len(hist) < MaxSteps
    /\ db' = r.db
    /\ file' = IF r.save THEN save_primary(file, r.db, io) ELSE file
    /\ backup' = IF r.save THEN save_backup(file, backup, io) ELSE backup
    /\ hist' = Append(hist, [op |-> op, uid |-> uid, arg |-> arg, ret |-> r.ret,
                             pre |-> db, saved |-> r.save, io |-> io,
                             prefile |-> file])
    /\ UNCHANGED <<norm, calc>>

Now == Timestamp(Len(hist))

\* calculate_tickets on the stored configuration, as the handlers call it.
Calculated(d, member) ==
    calculate_tickets(member, get_bonus_roles(d),
                      Get(get_tag(d), "enabled", B(FALSE)),
                      Get(get_tag(d), "text", None),
                      Get(get_tag(d), "quantity", I(1)))

AddParticipant(io) ==
    \E reg \in {<<1, Ana, Silva>>, <<2, Bia, Silva>>},
       tickets \in {Calculated(db, MemberAna), I(3)} :
        /\ (reg[1] = 2 => tickets # I(3))
        /\ Do("add_participant", reg[1], tickets,
              add_participant(db, reg[1], S(reg[2]), S(reg[3]), tickets, I(7), Now), io)

UpdateTickets(io) ==
    \E uid \in UserIds :
        Do("update_tickets", uid, Breakdown(D("2" :> RoleEntry(1, SB)), 0, 0),
           update_tickets(db, uid, Breakdown(D("2" :> RoleEntry(1, SB)), 0, 0)), io)

\* update_tickets(id, calculate_tickets(...)): the stored breakdown is
\* replaced by a fresh calculation.
Recalculate(io) ==
    \E uid \in UserIds :
        Do("recalculate", uid, Calculated(db, MemberVip),
           update_tickets(db, uid, Calculated(db, MemberVip)), io)

RemoveParticipant(io) ==
    \E uid \in UserIds : Do("remove_participant", uid, None, remove_participant(db, uid), io)

AddManualTag(io) ==
    \E uid \in UserIds, q \in {3, -1} :
        Do("add_manual_tag", uid, I(q), add_manual_tag(db, uid, q), io)

ClearParticipants(io) == Do("clear_participants", 0, None, clear_participants(db), io)

ClearAll(io) == Do("clear_all", 0, None, clear_all(db), io)

SetHashtag(io) == Do("set_hashtag", 0, S(<<"y">>), set_hashtag(db, S(<<"y">>)), io)

LockHashtag(io) == Do("lock_hashtag", 0, None, lock_hashtag(db), io)

UnlockHashtag(io) == Do("unlock_hashtag", 0, None, unlock_hashtag(db), io)

SetTag(io) ==
    \E a \in {<<B(TRUE), S(Vip), I(5)>>, <<B(FALSE), None, I(0)>>} :
        Do("set_tag", 0, L(a), set_tag(db, a[1], a[2], a[3]), io)

AddBonusRole(io) ==
    \E a \in {<<1, I(2), S(SB)>>, <<2, I(0), S(<<" ", "V">>)>>} :
        Do("add_bonus_role", a[1], L(<<a[2], a[3]>>),
           add_bonus_role(db, a[1], a[2], a[3]), io)

RemoveBonusRole(io) == Do("remove_bonus_role", 1, None, remove_bonus_role(db, 1), io)

AddToBlacklist(io) ==
    Do("add_to_blacklist", 1, None, add_to_blacklist(db, 1, S(<<"r">>), I(2), Now), io)

RemoveFromBlacklist(io) ==
    Do("remove_from_blacklist", 2, None, remove_from_blacklist(db, 2), io)

SetInscricaoChannel(io) ==
    Do("set_inscricao_channel", 0, I(8), set_inscricao_channel(db, I(8)), io)

SetButtonMessageId(io) ==
    Do("set_button_message_id", 0, I(8), set_button_message_id(db, I(8)), io)

AddButtonMessageId(io) ==
    \E m \in {7, 8} :
        Do("add_button_message_id", 0, I(m), add_button_message_id(db, I(m)), io)

SetChatLock(io) ==
    \E a \in {<<B(TRUE), I(8)>>, <<B(FALSE), None>>} :
        Do("set_chat_lock", 0, L(a), set_chat_lock(db, a[1], a[2]), io)

AddModerator(io) ==
    \E uid \in UserIds : Do("add_moderator", uid, None, add_moderator(db, uid), io)

RemoveModerator(io) == Do("remove_moderator", 1, None, remove_moderator(db, 1), io)

SetInscricoesClosed(io) ==
    Do("set_inscricoes_closed", 0, B(TRUE), set_inscricoes_closed(db, B(TRUE)), io)

\* The process is started again: line 115 loads what is on disk.
Restart == Do("load_db", 0, None, Result(load_db(file), None, FALSE), "ok")

Ops(io) ==
    \/ AddParticipant(io)
    \/ UpdateTickets(io)
    \/ Recalculate(io)
    \/ RemoveParticipant(io)
    \/ AddManualTag(io)
    \/ ClearParticipants(io)
    \/ ClearAll(io)
    \/ SetHashtag(io)
    \/ LockHashtag(io)
    \/ UnlockHashtag(io)
    \/ SetTag(io)
    \/ AddBonusRole(io)
    \/ RemoveBonusRole(io)
    \/ AddToBlacklist(io)
    \/ RemoveFromBlacklist(io)
    \/ SetInscricaoChannel(io)
    \/ SetButtonMessageId(io)
    \/ AddButtonMessageId(io)
    \/ SetChatLock(io)
    \/ AddModerator(io)
    \/ RemoveModerator(io)
    \/ SetInscricoesClosed(io)

\* Every save succeeds.
Next == Ops("ok") \/ Restart

Spec == Init /\ [][Next]_vars

\* Any file operation of a save may fail.
NextIO ==
    /\ Len(hist) < MaxIOSteps
    /\ \/ \E io \in IOOutcomes : Ops(io)
       \/ Restart

SpecIO == Init /\ [][NextIO]_vars

\* ------------------------------------------------------------ claims on the ledger
\* The snapshot after the i-th operation of the run.
Post(i) == IF i = Len(hist) THEN db ELSE hist[i + 1].pre

TicketsOf(d, uid) == d.v["participants"].v[str(uid)].v["tickets"]

\* Every field but those in ks is the same in d and e.
SameExcept(d, e, ks) ==
    /\ (DOMAIN d.v) \ ks = (DOMAIN e.v) \ ks
    /\ \A f \in (DOMAIN d.v) \ ks : d.v[f] = e.v[f]

\* C1: removing a registered participant returns True and deletes exactly
\* that record; removing the same id again straight away returns False,
\* leaves the snapshot as it is and does not save.
C1_RemoveTwice ==
    \A i \in 1..Len(hist) :
        (hist[i].op = "remove_participant" /\ is_registered(hist[i].pre, hist[i].uid))
        => /\ hist[i].ret = B(TRUE)
           /\ SameExcept(hist[i].pre, Post(i), {"participants"})
           /\ SameExcept(hist[i].pre.v["participants"], Post(i).v["participants"],
                         {str(hist[i].uid)})
           /\ ~is_registered(Post(i), hist[i].uid)
           /\ (i < Len(hist) /\ hist[i + 1].op = "remove_participant"
                 /\ hist[i + 1].uid = hist[i].uid)
              => /\ hist[i + 1].ret = B(FALSE)
                 /\ Post(i + 1) = hist[i + 1].pre
                 /\ ~hist[i + 1].saved

\* C1 witness: the same registered id has been removed twice in a row.
C1_Witness ==
    /\ Len(hist) = 2
    /\ hist[1].op = "remove_participant"
    /\ hist[2].op = "remove_participant"
    /\ hist[1].uid = hist[2].uid
    /\ is_registered(hist[1].pre, hist[1].uid)
    /\ hist[2].ret = B(FALSE)

\* An operation that replaces, removes or recreates the record of uid.
Touches(e, uid) ==
    \/ e.op \in {"clear_participants", "clear_all"}
    \/ e.op \in {"add_participant", "update_tickets", "recalculate", "remove_participant"}
       /\ e.uid = uid

IsManualTag(e, uid) == e.op = "add_manual_tag" /\ e.uid = uid

RECURSIVE DeltaSum(_, _, _)
DeltaSum(uid, i, j) ==
    IF i > j THEN 0
    ELSE (IF IsManualTag(hist[i], uid) THEN hist[i].arg.v ELSE 0) + DeltaSum(uid, i + 1, j)

\* C2: over any stretch of operations in which a registered participant's
\* record is touched by add_manual_tag only, manual_tag ends at its initial
\* value (0 when absent) plus the sum of the deltas, roles and tag are as
\* they were, and get_total_tickets has changed by exactly that sum.
C2_ManualTagSum ==
    \A uid \in UserIds : \A i \in 1..Len(hist) : \A j \in i..Len(hist) :
        (/\ is_registered(hist[i].pre, uid)
         /\ IsDict(TicketsOf(hist[i].pre, uid))
         /\ \A k \in i..j : ~Touches(hist[k], uid)
         /\ \E k \in i..j : IsManualTag(hist[k], uid))
        => LET t0 == TicketsOf(hist[i].pre, uid)
               t1 == TicketsOf(Post(j), uid)
               sum == DeltaSum(uid, i, j)
           IN  /\ Has(t1, "manual_tag")
               /\ t1.v["manual_tag"] = I(Get(t0, "manual_tag", I(0)).v + sum)
               /\ SameExcept(t0, t1, {"manual_tag"})
               /\ get_total_tickets(t1) = I(get_total_tickets(t0).v + sum)

\* C2 witness: +3 then -1 on a participant whose breakdown had no
\* manual_tag leaves manual_tag = 2.
C2_Witness ==
    /\ Len(hist) = 2
    /\ IsManualTag(hist[1], 1) /\ hist[1].arg = I(3)
    /\ IsManualTag(hist[2], 1) /\ hist[2].arg = I(-1)
    /\ is_registered(hist[1].pre, 1)
    /\ IsDict(TicketsOf(hist[1].pre, 1))
    /\ ~Has(TicketsOf(hist[1].pre, 1), "manual_tag")
    /\ TicketsOf(db, 1).v["manual_tag"] = I(2)

\* C3: recomputing a registered participant's breakdown with
\* calculate_tickets and storing it with update_tickets keeps the
\* manual_tag the breakdown had.
C3_ManualTagPreserved ==
    \A i \in 1..Len(hist) :
        (/\ hist[i].op = "recalculate"
         /\ is_registered(hist[i].pre, hist[i].uid)
         /\ IsDict(TicketsOf(hist[i].pre, hist[i].uid))
         /\ Has(TicketsOf(hist[i].pre, hist[i].uid), "manual_tag"))
        => /\ Has(TicketsOf(Post(i), hist[i].uid), "manual_tag")
           /\ TicketsOf(Post(i), hist[i].uid).v["manual_tag"]
                = TicketsOf(hist[i].pre, hist[i].uid).v["manual_tag"]

\* C4: clear_all leaves the default snapshot; clear_participants leaves an
\* empty participants mapping and every other field as it was.
C4_ClearFrames ==
    \A i \in 1..Len(hist) :
        /\ hist[i].op = "clear_all" => Post(i) = get_default_db
        /\ hist[i].op = "clear_participants"
           => /\ Post(i).v["participants"] = EmptyDict
              /\ SameExcept(hist[i].pre, Post(i), {"participants"})

\* C4 witness: clear_participants, then clear_all, on a snapshot with
\* participants, moderators, blacklist and a tag configuration.
C4_Witness ==
    /\ Len(hist) = 2
    /\ hist[1].op = "clear_participants"
    /\ hist[2].op = "clear_all"
    /\ hist[1].pre = FullSnapshot
    /\ hist[2].pre.v["participants"] = EmptyDict
    /\ hist[2].pre.v["moderators"] = L(<<I(1)>>)
    /\ db = get_default_db

\* C5: once a save has succeeded, load_db on the file returns a snapshot
\* equal to the one saved, and a restart leaves the snapshot as it was.
C5_RoundTrip ==
    \A i \in 1..Len(hist) :
        /\ (hist[i].saved /\ hist[i].io = "ok" /\ \A k \in (i + 1)..Len(hist) : ~hist[k].saved)
           => (file.k = "json" /\ load_db(file) = Post(i))
        /\ (hist[i].op = "load_db" /\ i > 1 /\ hist[i - 1].saved /\ hist[i - 1].io = "ok")
           => Post(i) = hist[i].pre

\* C5 witness: a snapshot with participants was saved and then loaded by a
\* restart.
C5_Witness ==
    /\ Len(hist) = 2
    /\ hist[1].op = "add_manual_tag"
    /\ hist[1].saved
    /\ hist[2].op = "load_db"
    /\ db = hist[2].pre
    /\ db # get_default_db
    /\ is_registered(db, 1)

\* C9: load_db returns the default snapshot when the file does not exist,
\* is empty, is not JSON or cannot be read.
C9_LoadDefaults ==
    ((hist = <<>> \/ hist[Len(hist)].op = "load_db")
     /\ file.k \in {"absent", "blank", "garbage", "unreadable"})
    => db = get_default_db

\* C9 witness: a restart has loaded a file that cannot be read.
C9_Witness ==
    /\ hist # <<>>
    /\ hist[Len(hist)].op = "load_db"
    /\ file = Unreadable
    /\ db = get_default_db

\* ------------------------------------------------------------ SpecCalc
\* calculate_tickets applied to a member and a configuration, and
\* get_total_tickets applied to the breakdown it returned.
RoleIds == {1, 2}

RoleInfos ==
    {RoleEntry(2, SB), RoleEntry(1, <<" ", "V">>), RoleEntry(0, SB),
     D([abreviation |-> S(SB)])}

\* Mappings as get_bonus_roles returns them: role id -> configuration.
BonusRoleConfigs ==
    UNION {[ids -> RoleInfos] : ids \in SUBSET RoleIds}

NameSets ==
    {<<S(Ana), None, None, S(<<"a">>)>>,
     <<S(Bia), S(<<"V", "i", "p", " ", "B">>), None, S(<<"b">>)>>,
     <<S(Bia), None, S(<<>>), S(<<" ", "v", "i", "p">>)>>}

CalcMembers ==
    {NoMember} \cup
    {Member(roles, n[1], n[2], n[3], n[4]) : roles \in SUBSET {1, 2, 3}, n \in NameSets}

TagConfigs ==
    {<<B(FALSE), S(Vip), I(5)>>, <<B(TRUE), S(Vip), I(5)>>, <<B(TRUE), None, I(1)>>,
     <<B(TRUE), S(<<" ", "V", "i", "P", " ">>), I(3)>>, <<B(TRUE), S(<<" ">>), I(3)>>}

InitCalc ==
    /\ db = get_default_db
    /\ file = NoFile
    /\ backup = NoFile
    /\ hist = <<>>
    /\ norm = NormIdle
    /\ \E m \in CalcMembers, br \in BonusRoleConfigs, tg \in TagConfigs :
          calc = [pc |-> "start", member |-> m, bonus_roles |-> br, tag |-> tg,
                  out |-> None, total |-> None]

Calculate ==
    /\ calc.pc = "start"
    /\ calc' = [calc EXCEPT !.pc = "calculated",
                  !.out = calculate_tickets(calc.member, calc.bonus_roles,
                                            calc.tag[1], calc.tag[2], calc.tag[3])]
    /\ UNCHANGED <<db, file, backup, hist, norm>>

Total ==
    /\ calc.pc = "calculated"
    /\ calc' = [calc EXCEPT !.pc = "totalled", !.total = get_total_tickets(calc.out)]
    /\ UNCHANGED <<db, file, backup, hist, norm>>

NextCalc == Calculate \/ Total

SpecCalc == InitCalc /\ [][NextCalc]_vars

\* ------------------------------------------------------------ claims on calculate_tickets
\* The configured roles the member holds.
HeldRoles == IF calc.member.present THEN (DOMAIN calc.bonus_roles) \cap calc.member.roles ELSE {}

\* Every configured role has an integer quantity > 0 and a string
\* abbreviation.
PositiveQuantities ==
    \A r \in DOMAIN calc.bonus_roles :
        LET info == calc.bonus_roles[r]
        IN  /\ Has(info, "quantity") /\ info.v["quantity"].t = "int"
            /\ info.v["quantity"].v > 0
            /\ Has(info, "abbreviation") /\ IsStr(info.v["abbreviation"])

RECURSIVE SumConfigured(_)
SumConfigured(ids) ==
    IF ids = {} THEN 0
    ELSE LET r == CHOOSE x \in ids : TRUE
         IN  calc.bonus_roles[r].v["quantity"].v + SumConfigured(ids \ {r})

\* The tag is enabled, has text, and that text is found in a name field.
TagMatches ==
    /\ calc.member.present
    /\ Truthy(calc.tag[1])
    /\ Truthy(calc.tag[2])
    /\ \E f \in {calc.member.display_name, calc.member.nick, calc.member.global_name,
                 calc.member.name} :
          Truthy(f) /\ IsSubstring(lower(strip(calc.tag[2].v)), lower(strip(f.v)))

\* The parts of C10 that do not mention the abbreviation: the keys of roles
\* are the configured roles held, each with its configured quantity, and
\* without a tag match tag is 0 and the total is the sum of the quantities.
RolesAndTotal ==
    /\ DOMAIN calc.out.v["roles"].v = {str(r) : r \in HeldRoles}
    /\ \A r \in HeldRoles :
          calc.out.v["roles"].v[str(r)].v["quantity"] = calc.bonus_roles[r].v["quantity"]
    /\ ~TagMatches => calc.out.v["tag"] = I(0)
    /\ (calc.pc = "totalled" /\ ~TagMatches) => calc.total = I(SumConfigured(HeldRoles))

\* C10 as stated: each entry carries the abbreviation exactly as configured.
C10_RolesAsConfigured ==
    (calc.pc \in {"calculated", "totalled"} /\ PositiveQuantities)
    => /\ RolesAndTotal
       /\ \A r \in HeldRoles :
             calc.out.v["roles"].v[str(r)].v["abbreviation"]
               = calc.bonus_roles[r].v["abbreviation"]

\* C10 amended: each entry carries the configured abbreviation with the
\* surrounding whitespace stripped.
C10_RolesStripped ==
    (calc.pc \in {"calculated", "totalled"} /\ PositiveQuantities)
    => /\ RolesAndTotal
       /\ \A r \in HeldRoles :
             calc.out.v["roles"].v[str(r)].v["abbreviation"]
               = S(strip(calc.bonus_roles[r].v["abbreviation"].v))

\* C10 witness: a member holding roles 1 (quantity 2) and 2 (quantity 1,
\* abbreviation " V") and a third, unconfigured role, no tag match: roles
\* 1 and 2 are recorded and the total is 3.
C10_Witness ==
    /\ calc.pc = "totalled"
    /\ calc.member.present
    /\ calc.member.roles = {1, 2, 3}
    /\ calc.bonus_roles = [r \in {1, 2} |->
                             IF r = 1 THEN RoleEntry(2, SB) ELSE RoleEntry(1, <<" ", "V">>)]
    /\ ~TagMatches
    /\ calc.out.v["roles"] = D([k \in {"1", "2"} |->
                                  IF k = "1" THEN RoleEntry(2, SB) ELSE RoleEntry(1, <<"V">>)])
    /\ calc.out.v["tag"] = I(0)
    /\ calc.total = I(3)

\* ------------------------------------------------------------ C11
\* The configured roles the member holds whose configured quantity is 0.
ZeroRoles ==
    {r \in HeldRoles : /\ Has(calc.bonus_roles[r], "quantity")
                       /\ calc.bonus_roles[r].v["quantity"] = I(0)}

\* The sum of the quantities recorded in the entries keys of the breakdown.
RECURSIVE SumRecorded(_)
SumRecorded(keys) ==
    IF keys = {} THEN 0
    ELSE LET k == CHOOSE x \in keys : TRUE
         IN  calc.out.v["roles"].v[k].v["quantity"].v + SumRecorded(keys \ {k})

\* C11: a bonus role configured with quantity 0 that the member holds is
\* recorded in the breakdown with quantity 0, and the total is the sum of
\* the other recorded quantities, the tag and the manual tag: the role
\* adds nothing to it.
C11_ZeroQuantityKept ==
    calc.pc \in {"calculated", "totalled"}
    => \A r \in ZeroRoles :
          /\ calc.out.v["roles"].v[str(r)].v["quantity"] = I(0)
          /\ calc.pc = "totalled"
               => calc.total = I(SumRecorded(DOMAIN calc.out.v["roles"].v \ {str(r)})
                                 + calc.out.v["tag"].v + calc.out.v["manual_tag"].v)

\* ------------------------------------------------------------ C12
\* The text of a name field; a field that is None has none.
FieldText(f) == IF IsStr(f) THEN f.v ELSE <<>>

\* The condition of C12: the tag is enabled, its text is non-empty, and
\* the lower-cased trimmed text is a substring of a lower-cased name field.
TagConditionAsStated ==
    /\ calc.member.present
    /\ calc.tag[1] = B(TRUE)
    /\ IsStr(calc.tag[2]) /\ Len(calc.tag[2].v) > 0
    /\ \E f \in {calc.member.display_name, calc.member.nick, calc.member.global_name,
                 calc.member.name} :
          IsSubstring(lower(strip(calc.tag[2].v)), lower(FieldText(f)))

\* C12: calculate_tickets sets tag to the configured tag quantity exactly
\* when the tag is enabled, the tag text is non-empty and the lower-cased
\* trimmed tag text occurs in one of the four lower-cased name fields, and
\* to 0 otherwise, whatever roles the member holds and whatever bonus
\* roles are configured.
C12_TagRule ==
    calc.pc \in {"calculated", "totalled"}
    => calc.out.v["tag"] = IF TagConditionAsStated THEN calc.tag[3] ELSE I(0)

\* C12 witness: the text " ViP " is found in the nickname "Vip B" only,
\* and tag is the configured 3; the member holds configured roles.
C12_Witness ==
    /\ calc.pc = "calculated"
    /\ calc.member.present
    /\ calc.member.nick = S(<<"V", "i", "p", " ", "B">>)
    /\ calc.tag = <<B(TRUE), S(<<" ", "V", "i", "P", " ">>), I(3)>>
    /\ HeldRoles = {1, 2}
    /\ calc.out.v["tag"] = I(3)

\* ------------------------------------------------------------ SpecNames
\* Registrations and removals under names of any case, with and without
\* spaces, and the names asked about.
NameInputs ==
    {<<Ana, Silva>>, <<<<"a", "n", "a">>, <<"S", "I", "L", "V", "A">>>>,
     <<<<"A", "n", "a", " ", "B">>, Silva>>, <<Ana, <<"B", " ", "S", "i", "l", "v", "a">>>>}

NameQueries == NameInputs \cup {<<Bia, Silva>>}

InitNames ==
    /\ file \in {NoFile, JsonFile(json_dump(I(5)))}
                \cup {JsonFile(json_dump(x)) :
                        x \in {FullSnapshot, PartialSnapshot, LegacySnapshot}}
    /\ backup = NoFile
    /\ db = load_db(file)
    /\ hist = <<>>
    /\ norm = NormIdle
    /\ calc = CalcIdle

RegisterName ==
    \E uid \in UserIds, n \in NameInputs :
        Do("add_participant", uid, Calculated(db, MemberAna),
           add_participant(db, uid, S(n[1]), S(n[2]), Calculated(db, MemberAna), I(7), Now),
           "ok")

NextNames == RegisterName \/ RemoveParticipant("ok")

SpecNames == InitNames /\ [][NextNames]_vars

\* ------------------------------------------------------------ C13

\* The participant records of the snapshot.
Records(d) == {Participants(d).v[k] : k \in DOMAIN Participants(d).v}

\* C13 as stated: is_name_taken(first, last) is true exactly when some
\* registered participant has a first name equal to first and a last name
\* equal to last, both compared case-insensitively.
C13_PairwiseMatch ==
    \A q \in NameQueries :
        is_name_taken(db, q[1], q[2])
          = B(\E p \in Records(db) : /\ lower(p.v["first_name"].v) = lower(q[1])
                                      /\ lower(p.v["last_name"].v) = lower(q[2]))

\* "first last", lower-cased.
FullNameLower(first, last) == lower(first \o <<" ">> \o last)

\* C13 amended: is_name_taken(first, last) is true exactly when some
\* registered participant's first and last name joined by one space equal
\* first and last joined by one space, compared case-insensitively.
C13_JoinedMatch ==
    \A q \in NameQueries :
        is_name_taken(db, q[1], q[2])
          = B(\E p \in Records(db) :
                 FullNameLower(p.v["first_name"].v, p.v["last_name"].v)
                   = FullNameLower(q[1], q[2]))

\* C13 witness: "ana SILVA" was registered, which made ("Ana", "Silva")
\* taken and ("Bia", "Silva") not, and was then removed, after which
\* ("Ana", "Silva") is free again.
C13_Witness ==
    /\ Len(hist) = 2
    /\ hist[1].op = "add_participant" /\ hist[1].uid = 2
    /\ hist[2].op = "remove_participant" /\ hist[2].uid = 2
    /\ is_name_taken(hist[1].pre, Ana, Silva) = B(FALSE)
    /\ hist[2].pre.v["participants"].v["2"].v["last_name"] = S(<<"S", "I", "L", "V", "A">>)
    /\ is_name_taken(hist[2].pre, Ana, Silva) = B(TRUE)
    /\ is_name_taken(hist[2].pre, Bia, Silva) = B(FALSE)
    /\ is_name_taken(db, Ana, Silva) = B(FALSE)

\* ------------------------------------------------------------ C14
\* The sum over the participants keys of get_total_tickets of the stored
\* breakdown.
RECURSIVE SumTotals(_, _)
SumTotals(ps, keys) ==
    IF keys = {} THEN 0
    ELSE LET k == CHOOSE x \in keys : TRUE
         IN  get_total_tickets(ps[k].v["tickets"]).v + SumTotals(ps, keys \ {k})

\* C14: where every stored tickets value is a breakdown, get_statistics
\* reports as total_tickets the sum over the participants of
\* get_total_tickets of their breakdown, as total_participants their
\* number and as blacklist_count the number of blacklist entries; with no
\* participant it reports 0 tickets, 0 participants with tag and no role.
C14_StatisticsTotals ==
    LET ps == Participants(db).v
        st == get_statistics(db)
    IN  (\A k \in DOMAIN ps : Has(ps[k], "tickets") /\ IsDict(ps[k].v["tickets"]))
        => /\ ~IsExc(st)
           /\ st.v["total_tickets"] = I(SumTotals(ps, DOMAIN ps))
           /\ st.v["total_participants"] = I(Cardinality(DOMAIN ps))
           /\ st.v["blacklist_count"] = I(Cardinality(DOMAIN db.v["blacklist"].v))
           /\ DOMAIN ps = {} => /\ st.v["total_tickets"] = I(0)
                                /\ st.v["total_participants"] = I(0)
                                /\ st.v["participants_with_tag"] = I(0)
                                /\ st.v["tickets_by_role"] = EmptyDict

\* ------------------------------------------------------------ C15
\* C15: get_statistics returns a statistics result, whether the stored
\* tickets values are breakdowns, breakdowns without roles or plain
\* integers.
C15_StatisticsTolerant == ~IsExc(get_statistics(db))

\* ------------------------------------------------------------ C16
\* The last call.
LastCall == hist[Len(hist)]

\* The outcomes in which the primary file is not written completely.
PrimaryFailures == {"open_fail", "dump_fail"}

\* The snapshot d shows the change the call e asked for.
Reflects(e, d) ==
    LET k == str(e.uid)
    IN  CASE e.op = "add_participant" ->
               is_registered(d, e.uid) /\ TicketsOf(d, e.uid) = e.arg
          [] e.op \in {"update_tickets", "recalculate"} -> TicketsOf(d, e.uid) = e.arg
          [] e.op = "remove_participant" -> ~is_registered(d, e.uid)
          [] e.op = "add_manual_tag" ->
               TicketsOf(d, e.uid).v["manual_tag"].v
                 = Get(TicketsOf(e.pre, e.uid), "manual_tag", I(0)).v + e.arg.v
          [] e.op = "clear_participants" -> d.v["participants"] = EmptyDict
          [] e.op = "clear_all" -> d = get_default_db
          [] e.op = "set_hashtag" -> d.v["hashtag"].v["value"] = e.arg
          [] e.op = "lock_hashtag" -> d.v["hashtag"].v["locked"] = B(TRUE)
          [] e.op = "unlock_hashtag" -> d.v["hashtag"].v["locked"] = B(FALSE)
          [] e.op = "set_tag" -> d.v["tag"].v["enabled"] = e.arg.v[1]
          [] e.op = "add_bonus_role" ->
               /\ Has(d.v["bonus_roles"], k)
               /\ d.v["bonus_roles"].v[k].v["quantity"] = e.arg.v[1]
               /\ d.v["bonus_roles"].v[k].v["abbreviation"] = e.arg.v[2]
          [] e.op = "remove_bonus_role" -> ~Has(d.v["bonus_roles"], k)
          [] e.op = "add_to_blacklist" -> Has(d.v["blacklist"], k)
          [] e.op = "remove_from_blacklist" -> ~Has(d.v["blacklist"], k)
          [] e.op = "set_inscricao_channel" -> d.v["inscricao_channel"] = e.arg
          [] e.op = "set_button_message_id" -> d.v["button_message_id"] = e.arg
          [] e.op = "add_button_message_id" -> InList(e.arg, d.v["button_message_id"].v)
          [] e.op = "set_chat_lock" -> d.v["chat_lock"].v["enabled"] = e.arg.v[1]
          [] e.op = "add_moderator" -> InList(I(e.uid), d.v["moderators"].v)
          [] e.op = "remove_moderator" -> ~InList(I(e.uid), d.v["moderators"].v)
          [] e.op = "set_inscricoes_closed" -> d.v["inscricoes_closed"] = e.arg
          [] OTHER -> FALSE

\* C16: an operation that changes the snapshot saves it; an operation that
\* saves returns without an exception and leaves its change in the
\* snapshot whether or not the save succeeds; and when the primary file is
\* written, the document in it is the snapshot after the operation.
C16_SaveAfterMutation ==
    Len(hist) > 0
    => /\ (LastCall.op # "load_db" /\ db # LastCall.pre) => LastCall.saved
       /\ LastCall.saved => ~IsExc(LastCall.ret) /\ Reflects(LastCall, db)
       /\ (LastCall.saved /\ LastCall.io \notin PrimaryFailures)
            => file.k = "json" /\ json_loads(file.doc) = db

\* C16 witness: registering a participant while the primary file cannot be
\* opened for writing: the file is as before, the call returns None and
\* the participant is in the snapshot.
C16_Witness ==
    /\ Len(hist) = 1
    /\ LastCall.op = "add_participant"
    /\ LastCall.io = "open_fail"
    /\ LastCall.saved
    /\ LastCall.ret = None
    /\ ~is_registered(LastCall.pre, LastCall.uid)
    /\ is_registered(db, LastCall.uid)
    /\ file = LastCall.prefile
    /\ file # JsonFile(json_dump(db))

\* ------------------------------------------------------------ C17
\* The calls that saved and were followed by no other save.
LastSaves == {j \in 1..Len(hist) : /\ hist[j].saved
                                    /\ \A m \in (j + 1)..Len(hist) : ~hist[m].saved}

\* The save of call j copied the primary file to the backup: there was a
\* file, and opening the backup and reading the original both worked.
BackupWritten(j) ==
    /\ Exists(hist[j].prefile)
    /\ hist[j].prefile.k # "unreadable"
    /\ hist[j].io \notin {"backup_open_fail", "orig_read_fail"}

\* C17: after a save that overwrote an existing file and wrote the backup,
\* the backup holds what the primary file held before that save; after two
\* saves in which every file operation succeeded, the backup holds the
\* snapshot written by the earlier one and the primary file that of the
\* later one.
C17_BackupIsPrevious ==
    \A j \in LastSaves :
        /\ BackupWritten(j) => backup = hist[j].prefile
        /\ \A i \in 1..(j - 1) :
              (/\ hist[i].saved /\ hist[i].io = "ok" /\ hist[j].io = "ok"
               /\ \A m \in (i + 1)..(j - 1) : ~hist[m].saved)
              => /\ backup = JsonFile(json_dump(Post(i)))
                 /\ file = JsonFile(json_dump(Post(j)))

\* C17 witness: two saving calls on a database file that existed, the
\* second changing the snapshot: the backup is the document of the first
\* save, which the second save overwrote with a different one.
C17_Witness ==
    /\ Len(hist) = 2
    /\ hist[1].saved /\ hist[2].saved
    /\ Exists(hist[1].prefile)
    /\ db # hist[2].pre
    /\ hist[2].prefile = JsonFile(json_dump(hist[2].pre))
    /\ backup = hist[2].prefile
    /\ file = JsonFile(json_dump(db))
    /\ backup # file

\* ------------------------------------------------------------ C18
\* The ids in the button-message-id registry of the snapshot.
RegistryIds(d) ==
    LET cur == Get(d, "button_message_id", None)
    IN  IF IsList(cur) THEN {cur.v[n] : n \in DOMAIN cur.v}
        ELSE IF cur = None THEN {} ELSE {cur}

\* C18: an id registered by set_button_message_id or add_button_message_id
\* is in the registry after any later calls other than clear_all; and
\* add_button_message_id leaves a list that holds the ids stored before
\* and holds no id twice.
C18_RegistryKeepsIds ==
    \A i \in 1..Len(hist) :
        /\ (/\ hist[i].op \in {"set_button_message_id", "add_button_message_id"}
            /\ \A m \in (i + 1)..Len(hist) : hist[m].op # "clear_all")
           => hist[i].arg \in RegistryIds(db)
        /\ hist[i].op = "add_button_message_id"
           => LET reg == Post(i).v["button_message_id"]
              IN  /\ IsList(reg)
                  /\ RegistryIds(hist[i].pre) \subseteq RegistryIds(Post(i))
                  /\ \A m, n \in DOMAIN reg.v : reg.v[m] = reg.v[n] => m = n

\* ------------------------------------------------------------ C19
\* From d to e only the field f of the sub-object k changed, and it is x.
OnlySubField(d, e, k, f, x) ==
    /\ SameExcept(d, e, {k})
    /\ SameExcept(d.v[k], e.v[k], {f})
    /\ e.v[k].v[f] = x

\* C19, of the call just made: set_chat_lock called without a channel id
\* changes nothing outside chat_lock, and where a chat_lock object is
\* stored it sets its enabled field and keeps every other field of it, the
\* channel_id included; set_hashtag changes hashtag.value and nothing
\* else; lock_hashtag and unlock_hashtag change hashtag.locked and nothing
\* else.
C19_PartialMerge ==
    Len(hist) > 0
    => LET e == LastCall
       IN  /\ (e.op = "set_chat_lock" /\ e.arg.v[2] = None)
              => IF Has(e.pre, "chat_lock")
                 THEN /\ ~IsExc(e.ret)
                      /\ OnlySubField(e.pre, db, "chat_lock", "enabled", e.arg.v[1])
                 ELSE db = e.pre
           /\ e.op = "set_hashtag"
              => ~IsExc(e.ret) /\ OnlySubField(e.pre, db, "hashtag", "value", e.arg)
           /\ e.op = "lock_hashtag"
              => ~IsExc(e.ret) /\ OnlySubField(e.pre, db, "hashtag", "locked", B(TRUE))
           /\ e.op = "unlock_hashtag"
              => ~IsExc(e.ret) /\ OnlySubField(e.pre, db, "hashtag", "locked", B(FALSE))

\* C19 witness: with the chat locked on channel 9 and the hashtag "x"
\* locked, set_chat_lock(False) keeps channel 9 and set_hashtag("y") keeps
\* the lock.
C19_Witness ==
    /\ Len(hist) = 2
    /\ hist[1].op = "set_chat_lock" /\ hist[1].arg = L(<<B(FALSE), None>>)
    /\ Get(hist[1].pre, "chat_lock", None) = D([enabled |-> B(TRUE), channel_id |-> I(9)])
    /\ hist[2].op = "set_hashtag"
    /\ hist[2].pre.v["hashtag"] = D([value |-> S(<<"x">>), locked |-> B(TRUE)])
    /\ db.v["chat_lock"] = D([enabled |-> B(FALSE), channel_id |-> I(9)])
    /\ db.v["hashtag"] = D([value |-> S(<<"y">>), locked |-> B(TRUE)])

\* ------------------------------------------------------------ C20
\* C20, of the call just made: update_tickets and add_manual_tag on an id
\* that is not registered
\* return None, register nobody and leave the snapshot as it was;
\* update_tickets on a registered id stores the given tickets in that
\* participant's record and changes nothing else.
C20_UnknownIdNoOp ==
    Len(hist) > 0
    => LET e == LastCall
           k == str(e.uid)
       IN  /\ (/\ e.op \in {"update_tickets", "recalculate", "add_manual_tag"}
               /\ ~is_registered(e.pre, e.uid))
              => /\ e.ret = None
                 /\ ~is_registered(db, e.uid)
                 /\ db = e.pre
           /\ (/\ e.op \in {"update_tickets", "recalculate"}
               /\ is_registered(e.pre, e.uid))
              => /\ e.ret = None
                 /\ SameExcept(e.pre, db, {"participants"})
                 /\ SameExcept(e.pre.v["participants"], db.v["participants"], {k})
                 /\ SameExcept(e.pre.v["participants"].v[k],
                               db.v["participants"].v[k], {"tickets"})
                 /\ TicketsOf(db, e.uid) = e.arg

\* C20 witness: with participant 1 registered and 2 not, update_tickets(2)
\* changes nothing and update_tickets(1) then replaces the tickets of 1.
C20_Witness ==
    /\ Len(hist) = 2
    /\ hist[1].op = "update_tickets" /\ hist[1].uid = 2
    /\ is_registered(hist[1].pre, 1) /\ ~is_registered(hist[1].pre, 2)
    /\ hist[2].pre = hist[1].pre
    /\ hist[2].op = "update_tickets" /\ hist[2].uid = 1
    /\ TicketsOf(hist[2].pre, 1) # hist[2].arg
    /\ TicketsOf(db, 1) = hist[2].arg
    /\ ~is_registered(db, 2)

\* ------------------------------------------------------------ C21
\* C21, of the call just made: add_bonus_role and remove_bonus_role change
\* nothing outside bonus_roles and, inside it, nothing but the entry of
\* their role id; so every participant record is as it was, and with it
\* the roles of every stored breakdown and its get_total_tickets.
C21_BonusRolesDecoupled ==
    (Len(hist) > 0 /\ LastCall.op \in {"add_bonus_role", "remove_bonus_role"})
    => LET e == LastCall
           ps == Participants(e.pre).v
       IN  /\ SameExcept(e.pre, db, {"bonus_roles"})
           /\ Has(e.pre, "bonus_roles") = Has(db, "bonus_roles")
           /\ Has(e.pre, "bonus_roles")
              => SameExcept(e.pre.v["bonus_roles"], db.v["bonus_roles"], {str(e.uid)})
           /\ DOMAIN Participants(db).v = DOMAIN ps
           /\ \A k \in DOMAIN ps :
                 /\ Participants(db).v[k].v["tickets"] = ps[k].v["tickets"]
                 /\ get_total_tickets(Participants(db).v[k].v["tickets"])
                      = get_total_tickets(ps[k].v["tickets"])

\* C21 witness: participant 1 holds a breakdown with an entry for role 1;
\* role 1 is removed from the configuration and then configured again, and
\* the breakdown still has its entry and its total of 9.
C21_Witness ==
    /\ Len(hist) = 2
    /\ hist[1].op = "remove_bonus_role" /\ hist[1].uid = 1 /\ hist[1].ret = B(TRUE)
    /\ hist[1].pre = FullSnapshot
    /\ ~Has(hist[2].pre.v["bonus_roles"], "1")
    /\ hist[2].op = "add_bonus_role" /\ hist[2].uid = 1
    /\ Has(db.v["bonus_roles"], "1")
    /\ TicketsOf(hist[2].pre, 1) = TicketsOf(FullSnapshot, 1)
    /\ TicketsOf(db, 1).v["roles"].v["1"] = RoleEntry(2, SB)
    /\ get_total_tickets(TicketsOf(db, 1)) = I(9)

====
